---- MODULE Spec2Model ----
(***************************************************************************)
(* A model of rutokenizer.Tokenizer (src/rutokenizer/tokenizer.py).        *)
(*                                                                         *)
(* A text is a sequence of characters; a character is a one-element        *)
(* string; a character outside ASCII, and each of the three quote marks,   *)
(* is written by its code point ("U+00A0").  Offsets are 0-based and       *)
(* end-exclusive, as in Python.                                            *)
(* One Tokenizer object is constructed, optionally loaded, and its two     *)
(* entry points tokenize and tokenize2 are called on one phrase.  Each     *)
(* iteration of a merge loop ("while i < nt") is one step.                 *)
(***************************************************************************)
EXTENDS Integers, Sequences, FiniteSets, TLC

VARIABLES
    loaded,             \* FALSE: prefix_hyphen and words_with_hyphen are None
    prefix_hyphen,      \* dict: lowercase prefix word -> <<min_len, max_len>>
    words_with_hyphen,  \* set of lowercase compound words
    phrase,             \* the text both entry points are called with
    pc,                 \* "idle", "tokenize" or "tokenize2": the running call
    tokens0,            \* locals of the running call
    tokens1,
    nt,
    i,
    prev_i,             \* i at the start of the last loop iteration, -1 before it
    probed,             \* the l1 whose aggregate the last iteration tested, in order
    ret1,               \* outcome of tokenize(phrase)
    ret2                \* outcome of tokenize2(phrase)

vars == <<loaded, prefix_hyphen, words_with_hyphen, phrase, pc, tokens0, tokens1,
          nt, i, prev_i, probed, ret1, ret2>>

locals == <<tokens0, tokens1, nt, i, prev_i, probed>>

(***************************************************************************)
(* Bounds of the model.                                                    *)
(***************************************************************************)
MaxLen == 3
MaxExtra == 2

Alphabet == {"a", "A", "b", "s", "-", " ", "\t"}

RECURSIVE TextsOfLen(_)
TextsOfLen(n) ==
    IF n = 0 THEN {<<>>}
    ELSE {Append(t, c) : t \in TextsOfLen(n - 1), c \in Alphabet}

Texts == UNION {TextsOfLen(n) : n \in 0..MaxLen}

Compounds == {<<"a", "-", "b">>, <<"a", "-">>}

PrefixWords == {<<"a">>}

Lexicons ==
    {[prefix_hyphen |-> [w \in PrefixWords |-> <<mn, mx>>], words_with_hyphen |-> ws] :
        mn \in 0..MaxExtra, mx \in 0..MaxExtra, ws \in SUBSET Compounds}

\* the entries of the data file: 0 <= min_len <= max_len
WellFormed(data) ==
    \A w \in DOMAIN data.prefix_hyphen :
        data.prefix_hyphen[w][1] <= data.prefix_hyphen[w][2]

DataFiles == {data \in Lexicons : WellFormed(data)}

(***************************************************************************)
(* The character classes of the four compiled patterns.                    *)
(***************************************************************************)
\* regex1: the class holds a tab, the four Unicode spaces, a backslash, the
\* letter s (the two characters of the non-raw '\s') and a space.
regex1 == {"\t", "U+00A0", "U+202F", "U+2060", "U+200A", "\\", "s", " "}

delimiters ==
    {"U+203C", "U+2260", "U+2122", "U+00AE", "U+2022", "U+00B7", "[", "U+00A1", "+",
     "<", ">", "U+0060", "~", ";", ".", ",", "U+201A", "?", "!", "-", "U+2026", "U+2116",
     "U+201D", "U+201C", "U+201E", "{", "}", "|", "U+2039", "U+203A", "/", "U+0027", "U+0022",
     "U+2013", "U+2014", "_", ":", "U+2011", "U+00AB", "U+00BB", "*", "]", "(", ")",
     "U+2018", "U+2019", "U+2248"}

spaces == {" ", "U+00A0", "U+202F", "U+2060", "U+200A"}

delimiters2 == spaces \cup delimiters

\* str.lower on one character of the alphabet
LowerChar(c) == IF c = "A" THEN "a" ELSE c

lower(s) == [k \in 1..Len(s) |-> LowerChar(s[k])]

\* s[a:b] for 0 <= a, with b clipped to len(s)
Slice(s, a, b) == SubSeq(s, a + 1, IF b < Len(s) THEN b ELSE Len(s))

\* u''.join(list of strings)
RECURSIVE join(_)
join(ss) == IF ss = <<>> THEN <<>> ELSE Head(ss) \o join(Tail(ss))

(***************************************************************************)
(* Segmentation of tokenize: before_split and tokenize0.                   *)
(***************************************************************************)
\* s.replace('--', '-'): non-overlapping occurrences, left to right
RECURSIVE replace(_)
replace(s) ==
    IF s = <<>> THEN <<>>
    ELSE IF Len(s) >= 2 /\ s[1] = "-" /\ s[2] = "-" THEN <<"-">> \o replace(SubSeq(s, 3, Len(s)))
    ELSE <<s[1]>> \o replace(Tail(s))

\* delimiters.sub(' \1 ', s): every delimiter character gets a space on both sides
RECURSIVE sub(_)
sub(s) ==
    IF s = <<>> THEN <<>>
    ELSE (IF s[1] \in delimiters THEN <<" ", s[1], " ">> ELSE <<s[1]>>) \o sub(Tail(s))

before_split(s) == sub(replace(s))

\* regex1.split(s): the pieces between the maximal runs of regex1 characters,
\* empty pieces at the ends included
RECURSIVE split(_, _, _)
split(s, k, cur) ==
    IF k > Len(s) THEN <<cur>>
    ELSE IF s[k] \in regex1
         THEN IF k > 1 /\ s[k - 1] \in regex1
              THEN split(s, k + 1, cur)
              ELSE <<cur>> \o split(s, k + 1, <<>>)
         ELSE split(s, k + 1, Append(cur, s[k]))

NonEmpty(w) == Len(w) > 0

tokenize0(s) == SelectSeq(split(before_split(s), 1, <<>>), NonEmpty)

(***************************************************************************)
(* Segmentation of tokenize2: tokens are <<text, start, end>>.             *)
(***************************************************************************)
\* delimiters2.finditer(phrase): one match per delimiter character
RECURSIVE finditer(_, _)
finditer(s, k) ==
    IF k > Len(s) THEN <<>>
    ELSE (IF s[k] \in delimiters2 THEN << <<(<<s[k]>>), k - 1, k>> >> ELSE <<>>)
         \o finditer(s, k + 1)

\* is_space with the test lost: no delimiter is taken for a space
is_space_never(s) == FALSE

\* spaces.match(s)
is_space(s) == s # <<>> /\ s[1] \in spaces

\* one pass of "for i, delim in enumerate(delim_tokens)", k = i + 1
BetweenDelims(s, delim_tokens, k) ==
    LET delim == delim_tokens[k] IN
    IF k > 1
    THEN LET prev_delim == delim_tokens[k - 1] IN
         IF prev_delim[3] # delim[2]
         THEN << <<Slice(s, prev_delim[3], delim[2]), prev_delim[3], delim[2]>> >>
         ELSE <<>>
    ELSE IF delim[2] > 0
         THEN << <<Slice(s, 0, delim[2]), 0, delim[2]>> >>
         ELSE <<>>

RECURSIVE SegmentLoop(_, _, _)
SegmentLoop(s, delim_tokens, k) ==
    IF k > Len(delim_tokens) THEN <<>>
    ELSE BetweenDelims(s, delim_tokens, k)
         \o (IF ~is_space(delim_tokens[k][1]) THEN <<delim_tokens[k]>> ELSE <<>>)
         \o SegmentLoop(s, delim_tokens, k + 1)

\* the last token, when the phrase does not end in a delimiter
LastToken(s, delim_tokens) ==
    LET phrase_len == Len(s) IN
    IF Len(delim_tokens) = 0 \/ delim_tokens[Len(delim_tokens)][3] # phrase_len
    THEN LET start_pos == IF Len(delim_tokens) > 0
                          THEN delim_tokens[Len(delim_tokens)][3] ELSE 0
         IN << <<Slice(s, start_pos, phrase_len), start_pos, phrase_len>> >>
    ELSE <<>>

segment2(s) ==
    LET delim_tokens == finditer(s, 1)
    IN SegmentLoop(s, delim_tokens, 1) \o LastToken(s, delim_tokens)

texts_of(ts) == [k \in 1..Len(ts) |-> ts[k][1]]

(***************************************************************************)
(* The merge loop, shared in shape by tokenize and tokenize2.  tx is the   *)
(* list of the segments' texts, i0 the loop index i, n the value of nt.    *)
(***************************************************************************)
\* "if i + l1 < nt"
InRange(i0, l1, n) == i0 + l1 < n

\* aggregate built from the lowercased texts
aggregate_lowered(tx, i0, l1) == lower(join(Slice(tx, i0, i0 + l1 + 2)))

\* u''.join(tokens0[i: i + l1 + 2]): the slice is clipped at the end of the list
aggregate(tx, i0, l1) == join(Slice(tx, i0, i0 + l1 + 2))

\* "if aggregate.lower() in self.words_with_hyphen"
IsCompound(tx, i0, l1) == lower(aggregate(tx, i0, l1)) \in words_with_hyphen

\* "for l1 in range(max_len, min_len-1, -1)", entered at l1: the l1 of the
\* first aggregate found in words_with_hyphen, or -1 when the loop runs out
RECURSIVE found_aggregate(_, _, _, _)
found_aggregate(tx, i0, l1, min_len) ==
    IF l1 < min_len THEN -1
    ELSE IF InRange(i0, l1, Len(tx)) /\ IsCompound(tx, i0, l1) THEN l1
    ELSE found_aggregate(tx, i0, l1 - 1, min_len)

\* the l1 whose aggregate that loop builds and tests, in the order tested
RECURSIVE tested(_, _, _, _)
tested(tx, i0, l1, min_len) ==
    IF l1 < min_len THEN <<>>
    ELSE IF ~InRange(i0, l1, Len(tx)) THEN tested(tx, i0, l1 - 1, min_len)
    ELSE IF IsCompound(tx, i0, l1) THEN <<l1>>
    ELSE <<l1>> \o tested(tx, i0, l1 - 1, min_len)

NotCalled == [status |-> "none", val |-> <<>>, loaded |-> FALSE]

Returned(v) == [status |-> "ok", val |-> v, loaded |-> loaded]

Raised(e) == [status |-> e, val |-> <<>>, loaded |-> loaded]

NoLocals ==
    /\ tokens0' = <<>>
    /\ tokens1' = <<>>
    /\ nt' = 0
    /\ i' = 0
    /\ prev_i' = -1
    /\ probed' = <<>>

(***************************************************************************)
(* Tokenizer.__init__ and Tokenizer.load                                   *)
(***************************************************************************)
Init ==
    /\ loaded = FALSE
    /\ prefix_hyphen = <<>>
    /\ words_with_hyphen = {}
    /\ phrase \in Texts
    /\ pc = "idle"
    /\ tokens0 = <<>>
    /\ tokens1 = <<>>
    /\ nt = 0
    /\ i = 0
    /\ prev_i = -1
    /\ probed = <<>>
    /\ ret1 = NotCalled
    /\ ret2 = NotCalled

\* load(): the two fields are read from rutokenizer.dat, whose content is data
Load ==
    /\ pc = "idle"
    /\ ~loaded
    /\ \E data \in DataFiles :
        /\ words_with_hyphen' = data.words_with_hyphen
        /\ prefix_hyphen' = data.prefix_hyphen
    /\ loaded' = TRUE
    /\ UNCHANGED <<phrase, pc, locals, ret1, ret2>>

(***************************************************************************)
(* Tokenizer.tokenize                                                      *)
(***************************************************************************)
TokenizeCall ==
    /\ pc = "idle"
    /\ ret1.status = "none"
    /\ pc' = "tokenize"
    /\ tokens0' = tokenize0(phrase)
    /\ tokens1' = <<>>
    /\ nt' = Len(tokenize0(phrase))
    /\ i' = 0
    /\ prev_i' = -1
    /\ probed' = <<>>
    /\ UNCHANGED <<loaded, prefix_hyphen, words_with_hyphen, phrase, ret1, ret2>>

\* one iteration of "while i < nt"
TokenizeStep ==
    /\ pc = "tokenize"
    /\ i < nt
    /\ IF ~loaded
       THEN \* "utoken0 not in None"
            /\ ret1' = Raised("TypeError")
            /\ pc' = "idle"
            /\ NoLocals
       ELSE LET utoken0 == lower(tokens0[i + 1]) IN
            /\ UNCHANGED <<ret1, pc, tokens0, nt>>
            /\ prev_i' = i
            /\ IF utoken0 \notin DOMAIN prefix_hyphen
               THEN /\ tokens1' = Append(tokens1, tokens0[i + 1])
                    /\ i' = i + 1
                    /\ probed' = <<>>
               ELSE LET min_len == prefix_hyphen[utoken0][1]
                        max_len == prefix_hyphen[utoken0][2]
                        l1 == found_aggregate(tokens0, i, max_len, min_len)
                    IN /\ probed' = tested(tokens0, i, max_len, min_len)
                       /\ IF l1 >= 0
                          THEN /\ tokens1' = Append(tokens1, aggregate(tokens0, i, l1))
                               /\ i' = i + l1 + 2
                          ELSE /\ tokens1' = Append(tokens1, tokens0[i + 1])
                               /\ i' = i + 1
    /\ UNCHANGED <<loaded, prefix_hyphen, words_with_hyphen, phrase, ret2>>

\* "return tokens1"
TokenizeReturn ==
    /\ pc = "tokenize"
    /\ ~(i < nt)
    /\ ret1' = Returned(tokens1)
    /\ pc' = "idle"
    /\ NoLocals
    /\ UNCHANGED <<loaded, prefix_hyphen, words_with_hyphen, phrase, ret2>>

(***************************************************************************)
(* Tokenizer.tokenize2                                                     *)
(***************************************************************************)
Tokenize2Call ==
    /\ pc = "idle"
    /\ ret2.status = "none"
    /\ pc' = "tokenize2"
    /\ tokens0' = segment2(phrase)
    /\ tokens1' = <<>>
    /\ nt' = Len(segment2(phrase))
    /\ i' = 0
    /\ prev_i' = -1
    /\ probed' = <<>>
    /\ UNCHANGED <<loaded, prefix_hyphen, words_with_hyphen, phrase, ret1, ret2>>

\* (aggregate, tokens0[i][1], tokens0[i + l1 + 1][2])
compound_token(toks, i0, l1) ==
    <<aggregate(texts_of(toks), i0, l1), toks[i0 + 1][2], toks[i0 + l1 + 2][3]>>

\* one iteration of "while i < nt"
Tokenize2Step ==
    /\ pc = "tokenize2"
    /\ i < nt
    /\ IF ~loaded
       THEN \* "utoken0 not in None"
            /\ ret2' = Raised("TypeError")
            /\ pc' = "idle"
            /\ NoLocals
       ELSE LET utoken0 == lower(tokens0[i + 1][1])
                tx == texts_of(tokens0)
            IN
            IF utoken0 \notin DOMAIN prefix_hyphen
            THEN /\ tokens1' = Append(tokens1, tokens0[i + 1])
                 /\ i' = i + 1
                 /\ prev_i' = i
                 /\ probed' = <<>>
                 /\ UNCHANGED <<ret2, pc, tokens0, nt>>
            ELSE LET min_len == prefix_hyphen[utoken0][1]
                     max_len == prefix_hyphen[utoken0][2]
                     l1 == found_aggregate(tx, i, max_len, min_len)
                 IN IF l1 >= 0 /\ ~(i + l1 + 1 < nt)
                    THEN \* tokens0[i + l1 + 1]: list index out of range
                         /\ ret2' = Raised("IndexError")
                         /\ pc' = "idle"
                         /\ NoLocals
                    ELSE /\ prev_i' = i
                         /\ probed' = tested(tx, i, max_len, min_len)
                         /\ UNCHANGED <<ret2, pc, tokens0, nt>>
                         /\ IF l1 >= 0
                            THEN /\ tokens1' = Append(tokens1, compound_token(tokens0, i, l1))
                                 /\ i' = i + l1 + 2
                            ELSE /\ tokens1' = Append(tokens1, tokens0[i + 1])
                                 /\ i' = i + 1
    /\ UNCHANGED <<loaded, prefix_hyphen, words_with_hyphen, phrase, ret1>>

\* "return tokens1"
Tokenize2Return ==
    /\ pc = "tokenize2"
    /\ ~(i < nt)
    /\ ret2' = Returned(tokens1)
    /\ pc' = "idle"
    /\ NoLocals
    /\ UNCHANGED <<loaded, prefix_hyphen, words_with_hyphen, phrase, ret1>>

Next ==
    \/ Load
    \/ TokenizeCall
    \/ TokenizeStep
    \/ TokenizeReturn
    \/ Tokenize2Call
    \/ Tokenize2Step
    \/ Tokenize2Return

Spec == Init /\ [][Next]_vars

(***************************************************************************)
(* Vocabulary of the properties.                                           *)
(***************************************************************************)
InLoop == pc \in {"tokenize", "tokenize2"}

\* the texts of the segments of the running call
SegmentTexts == IF pc = "tokenize2" THEN texts_of(tokens0) ELSE tokens0

IsPrefixAt(tx, i0) == lower(tx[i0 + 1]) \in DOMAIN prefix_hyphen

ExtraLengths(tx, i0) ==
    prefix_hyphen[lower(tx[i0 + 1])][1] .. prefix_hyphen[lower(tx[i0 + 1])][2]

\* segments i0 .. i0+l+1 all exist
Fits(tx, i0, l) == i0 + l + 2 <= Len(tx)

\* the concatenation of segments i0 .. i0+l+1
Concat(tx, i0, l) == join(SubSeq(tx, i0 + 1, i0 + l + 2))

\* l gives a candidate that lies inside the segment list and is a compound
FitMatch(tx, i0, l) == Fits(tx, i0, l) /\ lower(Concat(tx, i0, l)) \in words_with_hyphen

FitMatches(tx, i0) == {l \in ExtraLengths(tx, i0) : FitMatch(tx, i0, l)}

Longest(ls) == CHOOSE l \in ls : \A l2 \in ls : l2 <= l

IsWhitespace(s) == s # <<>> /\ \A k \in 1..Len(s) : s[k] \in spaces

(***************************************************************************)
(* C1.  On a loaded tokenizer, tokenize(text) and tokenize2(text) return   *)
(* the same token texts in the same order, for every text.                 *)
(***************************************************************************)
C1_SameTokenTexts ==
    (ret1.loaded /\ ret2.loaded /\ ret1.status = "ok" /\ ret2.status = "ok")
        => ret1.val = texts_of(ret2.val)

(***************************************************************************)
(* C2.  Every token (tok, start, end) returned by tokenize2(text) has      *)
(* text[start:end] = tok, merged compounds included.                       *)
(***************************************************************************)
C2_RoundTrip ==
    ret2.status = "ok" =>
        \A k \in 1..Len(ret2.val) :
            Slice(phrase, ret2.val[k][2], ret2.val[k][3]) = ret2.val[k][1]

(***************************************************************************)
(* C3.  On a loaded tokenizer whose entries have 0 <= min_len <= max_len,  *)
(* tokenize and tokenize2 return a token sequence and raise no error.      *)
(***************************************************************************)
C3_Total ==
    /\ ret1.loaded => ret1.status = "ok"
    /\ ret2.loaded => ret2.status = "ok"

(***************************************************************************)
(* C4.  Longest match: an iteration at a prefix word for which two or more *)
(* extra-lengths give a compound lying inside the segment list emits the   *)
(* merged token of the longest of them, in tokenize and in tokenize2.      *)
(***************************************************************************)
C4_LongestMatch ==
    [][(InLoop /\ loaded /\ i < nt /\ IsPrefixAt(SegmentTexts, i)
            /\ Cardinality(FitMatches(SegmentTexts, i)) >= 2)
        => LET l == Longest(FitMatches(SegmentTexts, i)) IN
           /\ pc' = pc
           /\ Len(tokens1') = Len(tokens1) + 1
           /\ tokens1'[Len(tokens1')] =
                IF pc = "tokenize" THEN Concat(tokens0, i, l)
                ELSE <<Concat(texts_of(tokens0), i, l), tokens0[i + 1][2], tokens0[i + l + 2][3]>>
      ]_vars

(***************************************************************************)
(* C5.  The empty text gives the empty token sequence in both modes.       *)
(***************************************************************************)
C5_EmptyInput ==
    phrase = <<>> =>
        /\ ret1.loaded => (ret1.status = "ok" /\ Len(ret1.val) = 0)
        /\ ret2.loaded => (ret2.status = "ok" /\ Len(ret2.val) = 0)

(***************************************************************************)
(* C6.  A call of tokenize or tokenize2 before load() raises an error and  *)
(* returns no token sequence, for every text.                              *)
(***************************************************************************)
C6_UsageError ==
    /\ (ret1.status # "none" /\ ~ret1.loaded) => ret1.status # "ok"
    /\ (ret2.status # "none" /\ ~ret2.loaded) => ret2.status # "ok"

(***************************************************************************)
(* C7.  Every candidate the merge loop builds and tests for membership,    *)
(* of extra-length l at segment index i, lies inside the segment list:     *)
(* i + l + 2 <= nt.                                                        *)
(***************************************************************************)
C7_BoundsCheck ==
    (InLoop /\ prev_i >= 0) =>
        \A k \in 1..Len(probed) : prev_i + probed[k] + 2 <= nt

(***************************************************************************)
(* C8.  Fallback: an iteration at a segment that is no prefix word, or at  *)
(* a prefix word for which no extra-length in its range gives a compound   *)
(* made of segments i .. i+l+1, emits that segment alone and unchanged and *)
(* advances by one.                                                        *)
(***************************************************************************)
C8_Fallback ==
    (InLoop /\ prev_i >= 0
        /\ (IsPrefixAt(SegmentTexts, prev_i) => FitMatches(SegmentTexts, prev_i) = {}))
    => /\ i = prev_i + 1
       /\ tokens1[Len(tokens1)] = tokens0[prev_i + 1]

(***************************************************************************)
(* C9.  In the result of tokenize2(text) the spans lie inside the text,    *)
(* are ordered and do not overlap; every character that is no whitespace   *)
(* delimiter lies in exactly one span; no token is made of whitespace      *)
(* delimiters.                                                             *)
(***************************************************************************)
C9_Spans ==
    ret2.status = "ok" =>
        LET r == ret2.val
            n == Len(phrase)
        IN /\ \A k \in 1..Len(r) :
                /\ 0 <= r[k][2] /\ r[k][2] <= n
                /\ 0 <= r[k][3] /\ r[k][3] <= n
           /\ \A k \in 1..(Len(r) - 1) : r[k][3] <= r[k + 1][2]
           /\ \A p \in 0..(n - 1) :
                phrase[p + 1] \notin spaces =>
                    Cardinality({k \in 1..Len(r) : r[k][2] <= p /\ p < r[k][3]}) = 1
           /\ \A k \in 1..Len(r) : ~IsWhitespace(r[k][1])

\* tokenize2 has returned two tokens for a text that holds a space between them
C9_Witness ==
    /\ ret2.status = "ok"
    /\ ret2.loaded
    /\ Len(ret2.val) = 2
    /\ ret2.val[1][3] < ret2.val[2][2]
    /\ phrase[ret2.val[1][3] + 1] \in spaces

(***************************************************************************)
(* C10.  The merge pass conserves the segments: in both loops the texts of *)
(* the tokens emitted so far concatenate to the texts of the segments      *)
(* consumed so far, letter case kept, and a returned result concatenates   *)
(* to the texts of all segments of the text.                               *)
(***************************************************************************)
C10_Conserved ==
    /\ pc = "tokenize" => join(tokens1) = join(Slice(tokens0, 0, i))
    /\ pc = "tokenize2" =>
            join(texts_of(tokens1)) = join(Slice(texts_of(tokens0), 0, i))
    /\ ret1.status = "ok" => join(ret1.val) = join(tokenize0(phrase))
    /\ ret2.status = "ok" =>
            join(texts_of(ret2.val)) = join(texts_of(segment2(phrase)))

\* a compound with a capital letter was merged from a span that ends the list
C10_Witness ==
    /\ InLoop
    /\ prev_i >= 0
    /\ i >= prev_i + 2
    /\ i >= nt
    /\ \E k \in 1..Len(SegmentTexts) : "A" \in {SegmentTexts[k][j] : j \in 1..Len(SegmentTexts[k])}
    /\ lower(join(SegmentTexts)) # join(SegmentTexts)
    /\ Len(tokens1) >= 1

====
